---- MODULE Spec2Model ----
(***************************************************************************)
(* Inoreader MCP: Config.validate (config.py), the OAuth2 setup script     *)
(* (setup_oauth_auto.py), the authorization URL, token store, expiry test  *)
(* and token endpoint calls of OAuth2Handler (oauth_client.py), the        *)
(* request layer, cache and methods of InoreaderClient                     *)
(* (inoreader_client.py), list_feeds_tool and mark_as_read_tool (tools.py) *)
(* and the tool tables, handlers and stdin loop of MinimalMCPServer        *)
(* (main.py).                                                              *)
(*                                                                         *)
(* Strings whose characters matter (the CSRF state, the query values of    *)
(* the redirect URL, the query of the authorization URL) are sequences of  *)
(* characters.  A JSON text is the sequence of its lexical tokens; a       *)
(* Python dict is a function from its keys to JSON values.  Time is        *)
(* counted in ticks, TicksPerSecond of them to a second, so that           *)
(* int(time.time()) truncates.                                             *)
(***************************************************************************)
EXTENDS Integers, Sequences, FiniteSets, TLC

VARIABLES
    now,          \* the clock, in ticks
    token_file,   \* ~/.config/inoreader-mcp/tokens.json
    state_file,   \* ~/.config/inoreader-mcp/oauth_state.txt
    issued,       \* the states secrets.token_urlsafe has produced so far
    consumed,     \* the states for which a code exchange has succeeded
    run,          \* what the last run of setup_oauth_auto.main did
    written,      \* the store's last save on its own: its argument, and whether it returned
    loaded,       \* what the last call of load_tokens returned
    expiry,       \* the last call of is_token_expired: its inputs and its answer
    client,       \* the InoreaderClient instance: session, auth_token, cache
    call,         \* the last client operation: the request sent and its outcome
    save,         \* a save_tokens in progress, statement by statement
    grant,        \* the last call of the token endpoint: its answer and what came back
    tool,         \* the run of a tool of tools.py
    server,       \* the stdin loop of MinimalMCPServer
    authz         \* the calls of get_authorization_url: the last two, and their count

vars == <<now, token_file, state_file, issued, consumed, run, written, loaded,
          expiry, client, call, save, grant, tool, server, authz>>

setupVars == <<token_file, state_file, issued, consumed, run, written>>
clientVars == <<client, call>>
laterVars == <<save, grant, tool, server, authz>>

----------------------------------------------------------------------------
\* Bounds of the model.

MaxNow == 4
TicksPerSecond == 2
MaxParams == 2
MaxTorn == 2
MaxTTLs == 2
MaxIds == 45
MaxLines == 2
MaxCalls == 3
MaxUrls == 2
MaxRuns == 2

\* Program constants.

DefaultBuffer == 300
DefaultLifetime == 3600

Seconds(t) == t \div TicksPerSecond

----------------------------------------------------------------------------
\* JSON values and JSON texts.

JStr(s) == [t |-> "str", s |-> s, n |-> 0]
JInt(n) == [t |-> "int", s |-> "", n |-> n]
\* An array of n elements, named by what it lists.
JList(s, n) == [t |-> "list", s |-> s, n |-> n]
Punct(c) == [t |-> c, s |-> "", n |-> 0]

LBrace == Punct("{")
RBrace == Punct("}")
Colon == Punct(":")
Comma == Punct(",")

EmptyDict == [k \in {} |-> JInt(0)]

DictPut(d, key, val) ==
    [k \in DOMAIN d \cup {key} |-> IF k = key THEN val ELSE d[k]]

\* dict.get(key, default)
Get(d, key, default) == IF key \in DOMAIN d THEN d[key] ELSE default

\* The order in which the token dicts are built (Python dicts keep it).
KeyOrder == <<"access_token", "refresh_token", "expires_at", "scope">>

KeysOf(d) == SelectSeq(KeyOrder, LAMBDA k : k \in DOMAIN d)

RECURSIVE DumpMembers(_, _)
DumpMembers(d, keys) ==
    IF keys = <<>> THEN <<>>
    ELSE <<JStr(Head(keys)), Colon, d[Head(keys)]>>
         \o (IF Tail(keys) = <<>> THEN <<>> ELSE <<Comma>>)
         \o DumpMembers(d, Tail(keys))

\* json.dump(tokens, f, indent=2): the text of a dict.
JsonDump(d) == <<LBrace>> \o DumpMembers(d, KeysOf(d)) \o <<RBrace>>

ParseError == [ok |-> FALSE, val |-> EmptyDict]

RECURSIVE ParseMembers(_, _)
ParseMembers(toks, acc) ==
    IF Len(toks) < 3 THEN ParseError
    ELSE IF toks[1].t # "str" \/ toks[2] # Colon \/ toks[3].t \notin {"str", "int", "list"}
    THEN ParseError
    ELSE LET acc2 == DictPut(acc, toks[1].s, toks[3])
         IN  IF Len(toks) = 3 THEN [ok |-> TRUE, val |-> acc2]
             ELSE IF toks[4] # Comma THEN ParseError
             ELSE ParseMembers(SubSeq(toks, 5, Len(toks)), acc2)

\* json.load(f) of a text that is an object of string, integer and array
\* members; on anything else this raises JSONDecodeError.
JsonLoad(toks) ==
    IF Len(toks) < 2 \/ toks[1] # LBrace \/ toks[Len(toks)] # RBrace THEN ParseError
    ELSE IF Len(toks) = 2 THEN [ok |-> TRUE, val |-> EmptyDict]
    ELSE ParseMembers(SubSeq(toks, 2, Len(toks) - 1), EmptyDict)

----------------------------------------------------------------------------
\* Token Store (OAuth2Handler.load_tokens / save_tokens).

NoFile == [exists |-> FALSE, text |-> <<>>, mode |-> "none"]

\* open(token_file, "a"): keeps what the file holds.
OpenForWrite_append(f) ==
    [exists |-> TRUE, text |-> f.text, mode |-> IF f.exists THEN f.mode ELSE "umask"]

\* open(token_file, "w"): truncates, and creates the file with the mode the
\* umask gives when it did not exist.
OpenForWrite(f) ==
    [exists |-> TRUE, text |-> <<>>, mode |-> IF f.exists THEN f.mode ELSE "umask"]

\* The file after a write that got `k` tokens of `text` out before failing.
WrittenPrefix(f, text, k) ==
    [OpenForWrite(f) EXCEPT !.text = @ \o SubSeq(text, 1, k)]

save_tokens(f, tokens) ==
    [WrittenPrefix(f, JsonDump(tokens), Len(JsonDump(tokens))) EXCEPT !.mode = "0600"]

\* A load that takes an unreadable file for a missing one.
load_tokens_swallow(f) ==
    IF ~f.exists \/ ~JsonLoad(f.text).ok THEN [kind |-> "none", val |-> EmptyDict]
    ELSE [kind |-> "dict", val |-> JsonLoad(f.text).val]

load_tokens(f) ==
    IF ~f.exists THEN [kind |-> "none", val |-> EmptyDict]
    ELSE LET r == JsonLoad(f.text)
         IN  IF r.ok THEN [kind |-> "dict", val |-> r.val]
             ELSE [kind |-> "raise", val |-> EmptyDict]

\* An expiry test that is strict at the boundary.
is_token_expired_strict(tokens, buffer_seconds, t) ==
    Seconds(t) > (Get(tokens, "expires_at", JInt(0)).n - buffer_seconds)

\* is_token_expired(tokens, buffer_seconds) at clock reading t (ticks).
is_token_expired(tokens, buffer_seconds, t) ==
    LET expires_at == Get(tokens, "expires_at", JInt(0)).n
        current_time == Seconds(t)
    IN  current_time >= (expires_at - buffer_seconds)

----------------------------------------------------------------------------
\* Strings of characters, and the query of the redirect URL.

IsSpace(c) == c = " "

RECURSIVE LStrip(_)
LStrip(s) == IF s # <<>> /\ IsSpace(Head(s)) THEN LStrip(Tail(s)) ELSE s

RECURSIVE RStrip(_)
RStrip(s) ==
    IF s # <<>> /\ IsSpace(s[Len(s)]) THEN RStrip(SubSeq(s, 1, Len(s) - 1)) ELSE s

\* str.strip()
Strip(s) == RStrip(LStrip(s))

None == [some |-> FALSE, v |-> <<>>]
Some(v) == [some |-> TRUE, v |-> v]

\* The states secrets.token_urlsafe(32) can produce: URL-safe characters only.
States == {<<"x">>, <<"y">>}

\* The decoded values a query parameter of the pasted URL can carry.
UrlValues == {<<>>, <<"x">>, <<"y">>, <<"x", " ">>}
UrlKeys == {"code", "state"}
UrlParams == [k : UrlKeys, v : UrlValues]
Queries == UNION {[1..n -> UrlParams] : n \in 0..MaxParams}

\* sys.argv[1].strip(): the empty string, or a URL with its query.
Urls == {[empty |-> TRUE, query |-> <<>>]} \cup {[empty |-> FALSE, query |-> q] : q \in Queries}

\* parse_qs(parsed.query).get(key, []): the values of `key` in order; blank
\* values are dropped (keep_blank_values is off).
RECURSIVE QueryValues(_, _)
QueryValues(query, key) ==
    IF query = <<>> THEN <<>>
    ELSE (IF Head(query).k = key /\ Head(query).v # <<>> THEN <<Head(query).v>> ELSE <<>>)
         \o QueryValues(Tail(query), key)

extract_code_from_url(url) ==
    LET codes == QueryValues(url.query, "code")
    IN  IF codes # <<>> THEN Some(codes[1]) ELSE None

extract_state_from_url(url) ==
    LET states == QueryValues(url.query, "state")
    IN  IF states # <<>> THEN Some(states[1]) ELSE None

----------------------------------------------------------------------------
\* OAuth2Handler.get_authorization_url.  A URL is its endpoint and the
\* characters of its query; names made of unreserved characters only
\* ("client_id", "localhost") stand as one character.

\* The characters urlencode escapes, with the two hex digits of each.
Reserved == {"&", "=", "+", "%", ":", "/", "?"}
Hex(c) ==
    CASE c = "&" -> <<"2", "6">>
      [] c = "=" -> <<"3", "D">>
      [] c = "+" -> <<"2", "B">>
      [] c = "%" -> <<"2", "5">>
      [] c = ":" -> <<"3", "A">>
      [] c = "/" -> <<"2", "F">>
      [] c = "?" -> <<"3", "F">>

\* A quoting that leaves every character as it is.
RECURSIVE quote_plus_verbatim(_)
quote_plus_verbatim(s) ==
    IF s = <<>> THEN <<>> ELSE <<Head(s)>> \o quote_plus_verbatim(Tail(s))

\* quote_plus, which urlencode applies to every key and value: a space
\* becomes "+", a reserved character its percent escape.
RECURSIVE quote_plus(_)
quote_plus(s) ==
    IF s = <<>> THEN <<>>
    ELSE (IF Head(s) = " " THEN <<"+">>
          ELSE IF Head(s) \in Reserved THEN <<"%">> \o Hex(Head(s))
          ELSE <<Head(s)>>) \o quote_plus(Tail(s))

\* urlencode(params): key=value of each item in the dict's order, joined by &.
RECURSIVE urlencode(_)
urlencode(params) ==
    IF params = <<>> THEN <<>>
    ELSE quote_plus(Head(params).k) \o <<"=">> \o quote_plus(Head(params).v)
         \o (IF Len(params) > 1 THEN <<"&">> ELSE <<>>) \o urlencode(Tail(params))

Param(k, v) == [k |-> k, v |-> v]

\* self.app_id and self.auth_url of the handler the setup script builds.
AppId == <<"app", "1">>
AuthUrl == "https://www.inoreader.com/oauth2/auth"
DefaultRedirectUri == <<"http", ":", "/", "/", "localhost", ":", "8080", "/", "callback">>

get_authorization_url(state, redirect_uri) ==
    [endpoint |-> AuthUrl,
     query |-> urlencode(<<Param(<<"client_id">>, AppId),
                           Param(<<"redirect_uri">>, redirect_uri),
                           Param(<<"response_type">>, <<"code">>),
                           Param(<<"scope">>, <<"read", " ", "write">>),
                           Param(<<"state">>, state)>>)]

\* What a server that receives the URL reads off its query: the pieces
\* between the & signs, each split at its first = sign and unquoted.
RECURSIVE unquote_plus(_)
unquote_plus(s) ==
    IF s = <<>> THEN <<>>
    ELSE IF Head(s) = "+" THEN <<" ">> \o unquote_plus(Tail(s))
    ELSE IF Head(s) = "%" /\ Len(s) >= 3 /\ \E c \in Reserved : Hex(c) = <<s[2], s[3]>>
    THEN <<CHOOSE c \in Reserved : Hex(c) = <<s[2], s[3]>>>>
         \o unquote_plus(SubSeq(s, 4, Len(s)))
    ELSE <<Head(s)>> \o unquote_plus(Tail(s))

\* The position of the first `sep` in s, or Len(s) + 1.
RECURSIVE Find(_, _, _)
Find(s, sep, i) ==
    IF i > Len(s) \/ s[i] = sep THEN i ELSE Find(s, sep, i + 1)

RECURSIVE parse_qsl(_)
parse_qsl(query) ==
    IF query = <<>> THEN <<>>
    ELSE LET amp == Find(query, "&", 1)
             piece == SubSeq(query, 1, amp - 1)
             eq == Find(piece, "=", 1)
         IN  <<Param(unquote_plus(SubSeq(piece, 1, eq - 1)),
                     unquote_plus(SubSeq(piece, eq + 1, Len(piece))))>>
             \o parse_qsl(SubSeq(query, amp + 1, Len(query)))

----------------------------------------------------------------------------
\* The token endpoint and OAuth2Handler.exchange_code_for_tokens.

Opt(key, vals) == {EmptyDict} \cup {DictPut(EmptyDict, key, v) : v \in vals}

Merge(d, e) == [k \in DOMAIN d \cup DOMAIN e |-> IF k \in DOMAIN e THEN e[k] ELSE d[k]]

\* The JSON objects the token endpoint may answer with: complete ones, with and
\* without the optional members, and ones that lack a token.
TokenResults ==
    {Merge(Merge(a, r), Merge(e, s)) :
        a \in Opt("access_token", {JStr("A1")}),
        r \in Opt("refresh_token", {JStr("R1")}),
        e \in Opt("expires_in", {JInt(300)}),
        s \in {EmptyDict}}
    \cup {Merge(DictPut(DictPut(EmptyDict, "access_token", JStr("A2")),
                        "refresh_token", JStr("R2")),
                DictPut(EmptyDict, "scope", JStr("read")))}

TokenResponses ==
    {[kind |-> "network_error", status |-> 0, text |-> "", result |-> EmptyDict]}
    \cup {[kind |-> "response", status |-> 400, text |-> "invalid_grant",
           result |-> EmptyDict]}
    \cup {[kind |-> "response", status |-> 200, text |-> "", result |-> j] :
            j \in TokenResults}

Raised(what, status, text) ==
    [ok |-> FALSE, tokens |-> EmptyDict, what |-> what, status |-> status, text |-> text]

Returned(tokens) ==
    [ok |-> TRUE, tokens |-> tokens, what |-> "", status |-> 200, text |-> ""]

TokenRecord(access_token, refresh_token, expires_at, scope) ==
    [k \in {"access_token", "refresh_token", "expires_at", "scope"} |->
        CASE k = "access_token" -> access_token
          [] k = "refresh_token" -> refresh_token
          [] k = "expires_at" -> expires_at
          [] OTHER -> scope]

exchange_code_for_tokens(resp, t) ==
    IF resp.kind # "response" THEN Raised("ClientError", 0, "")
    ELSE IF resp.status # 200
    THEN Raised("Token exchange failed", resp.status, resp.text)
    ELSE LET result == resp.result
             expires_at == Seconds(t) + Get(result, "expires_in", JInt(DefaultLifetime)).n
         IN  IF "access_token" \notin DOMAIN result \/ "refresh_token" \notin DOMAIN result
             THEN Raised("KeyError", 200, "")
             ELSE Returned(TokenRecord(result["access_token"], result["refresh_token"],
                                       JInt(expires_at),
                                       Get(result, "scope", JStr("read write"))))

\* A refresh that keeps the status of a refused request and loses its body.
refresh_access_token_nobody(resp, t) ==
    IF resp.kind = "response" /\ resp.status # 200
    THEN Raised("Token refresh failed", resp.status, "")
    ELSE exchange_code_for_tokens(resp, t)

\* A refresh that counts the lifetime from the epoch, not from the time of issue.
refresh_access_token_epoch(resp, t) ==
    IF exchange_code_for_tokens(resp, t).ok
    THEN exchange_code_for_tokens(resp, 0)
    ELSE exchange_code_for_tokens(resp, t)

\* refresh_access_token(refresh_token), given the endpoint's answer and the
\* clock reading: the same statements as the exchange, with its own message.
refresh_access_token(resp, t) ==
    IF resp.kind # "response" THEN Raised("ClientError", 0, "")
    ELSE IF resp.status # 200
    THEN Raised("Token refresh failed", resp.status, resp.text)
    ELSE LET result == resp.result
             expires_at == Seconds(t) + Get(result, "expires_in", JInt(DefaultLifetime)).n
         IN  IF "access_token" \notin DOMAIN result \/ "refresh_token" \notin DOMAIN result
             THEN Raised("KeyError", 200, "")
             ELSE Returned(TokenRecord(result["access_token"], result["refresh_token"],
                                       JInt(expires_at),
                                       Get(result, "scope", JStr("read write"))))

----------------------------------------------------------------------------
\* Config (config.py) and the attributes InoreaderClient.__init__ reads from it.

ConfigAttributes ==
    {"INOREADER_APP_ID", "INOREADER_APP_KEY", "INOREADER_BASE_URL", "OAUTH_TOKEN_URL",
     "OAUTH_AUTH_URL", "CACHE_TTL", "REQUEST_TIMEOUT", "MAX_ARTICLES_PER_REQUEST"}

InitAttributes ==
    {"INOREADER_BASE_URL", "INOREADER_APP_ID", "INOREADER_APP_KEY", "INOREADER_USERNAME",
     "INOREADER_PASSWORD", "CACHE_TTL"}

\* The environments a process may start in: which of the variables that
\* Config and validate look at are set to a non-empty value.
Envs == SUBSET {"INOREADER_APP_ID", "INOREADER_APP_KEY", "INOREADER_USERNAME"}

\* Config.validate(): ValueError when a required variable is missing,
\* sys.exit(1) when an old credential is still set, else True.
validate(env) ==
    IF ~({"INOREADER_APP_ID", "INOREADER_APP_KEY"} \subseteq env) THEN "ValueError"
    ELSE IF "INOREADER_USERNAME" \in env THEN "SystemExit"
    ELSE "True"

\* InoreaderClient() raises AttributeError when Config lacks an attribute it reads.
InoreaderClient_init_raises == ~(InitAttributes \subseteq ConfigAttributes)

\* verify_tokens(oauth): constructs the client, enters it and lists the
\* subscriptions; any of the three may raise.
verify_tokens_outcomes ==
    IF InoreaderClient_init_raises THEN {"raise"} ELSE {"raise", "ok"}

----------------------------------------------------------------------------
\* setup_oauth_auto.main

NoStateFile == [exists |-> FALSE, text |-> <<>>]

\* What a run of main() did.  has_url, has_code: what the redirect URL carried;
\* state_equal: the URL's state is the saved state, character for character;
\* replay: the saved state had already been through a successful exchange;
\* exchange_called: the token endpoint was POSTed to; answer_ok: it answered
\* 200 with an access and a refresh token.
NoRun ==
    [kind |-> "none", exit |-> "none", has_url |-> FALSE, has_code |-> FALSE,
     state_equal |-> FALSE, replay |-> FALSE, exchange_called |-> FALSE,
     answer_ok |-> FALSE]

TokensIssued(resp) ==
    /\ resp.kind = "response"
    /\ resp.status = 200
    /\ {"access_token", "refresh_token"} \subseteq DOMAIN resp.result

\* A check that lets a URL without a state through.
StateMismatch_unlessAbsent(url_state, expected_state) ==
    url_state.some /\ url_state # Some(expected_state)

\* A check that compares the stripped state of the URL.
StateMismatch_stripped(url_state, expected_state) ==
    ~url_state.some \/ Strip(url_state.v) # expected_state

\* The CSRF check of main(): url_state != expected_state.
StateMismatch(url_state, expected_state) == url_state # Some(expected_state)

\* The write that left the token file as it is: the dict it was given, whether
\* it ran to its end, and whether a file was there before it.
NotWritten ==
    [called |-> FALSE, tokens |-> EmptyDict, complete |-> FALSE, over |-> FALSE]

\* main() without a redirect URL: print the authorization URL, save the state.
SetupGenerate ==
    /\ \E state \in States \ issued :
         /\ state_file' = [exists |-> TRUE, text |-> state]
         /\ issued' = issued \cup {state}
    /\ run' = [NoRun EXCEPT !.kind = "generate", !.exit = "url_printed"]
    /\ UNCHANGED <<now, token_file, consumed, written, loaded, expiry, client,
                   call, laterVars>>

\* main() in an environment that Config.validate() refuses: the error is
\* printed and the script exits with status 1.  SetupGenerate and
\* SetupCallback are the runs in an environment it accepts.
SetupConfigError ==
    /\ \E env \in Envs :
         /\ validate(env) # "True"
         /\ run' = [NoRun EXCEPT !.kind = "startup",
                                 !.exit = IF validate(env) = "ValueError"
                                          THEN "config_error" ELSE "old_credentials"]
    /\ UNCHANGED <<now, token_file, state_file, issued, consumed, written, loaded,
                   expiry, client, call, laterVars>>

\* The ways save_tokens can go for a text of n tokens: open() fails (-1), the
\* write fails after k < n tokens, or all n tokens are written and it returns.
OpenFailed == 0 - 1
Min(a, b) == IF a < b THEN a ELSE b
SaveOutcomes(n) == (OpenFailed .. Min(n - 1, MaxTorn)) \cup {n}

\* What main() reads off the redirect URL: whether it is empty, its code and
\* its state.
ParsedUrl(url) ==
    [empty |-> url.empty, code |-> extract_code_from_url(url),
     url_state |-> extract_state_from_url(url)]

ParsedUrls == {ParsedUrl(url) : url \in Urls}

\* main() with a redirect URL.
SetupCallbackBody(url) ==
    LET Exit(r, e) == run' = [r EXCEPT !.kind = "callback", !.exit = e]
        Untouched == UNCHANGED <<token_file, state_file, consumed, written>>
    IN
    IF url.empty THEN Exit(NoRun, "no_url") /\ Untouched
    ELSE IF ~state_file.exists
    THEN Exit([NoRun EXCEPT !.has_url = TRUE], "no_state_file") /\ Untouched
    ELSE
      LET expected_state == Strip(state_file.text)
          code == url.code
          url_state == url.url_state
          seen == [NoRun EXCEPT !.has_url = TRUE, !.has_code = code.some,
                                !.state_equal = (url_state = Some(state_file.text))]
      IN
      IF ~code.some THEN Exit(seen, "no_code") /\ Untouched
      ELSE IF StateMismatch(url_state, expected_state)
      THEN Exit(seen, "state_mismatch") /\ Untouched
      ELSE
        \E resp \in TokenResponses :
          LET x == exchange_code_for_tokens(resp, now)
              called == [seen EXCEPT !.exchange_called = TRUE,
                                     !.replay = (expected_state \in consumed)]
              issuedRun == [called EXCEPT !.answer_ok = TokensIssued(resp)]
          IN
          IF ~x.ok THEN Exit(issuedRun, "exchange_failed") /\ Untouched
          ELSE
            /\ consumed' = consumed \cup {expected_state}
            /\ UNCHANGED written
            /\ \E w \in SaveOutcomes(Len(JsonDump(x.tokens))) :
                 IF w = OpenFailed
                 THEN /\ Exit(issuedRun, "save_failed")
                      /\ UNCHANGED <<token_file, state_file>>
                 ELSE IF w < Len(JsonDump(x.tokens))
                 THEN /\ Exit(issuedRun, "save_failed")
                      /\ token_file' = WrittenPrefix(token_file, JsonDump(x.tokens), w)
                      /\ UNCHANGED state_file
                 ELSE /\ token_file' = save_tokens(token_file, x.tokens)
                      /\ \E v \in verify_tokens_outcomes :
                           IF v = "raise"
                           THEN /\ Exit(issuedRun, "verify_failed")
                                /\ UNCHANGED state_file
                           ELSE /\ Exit(issuedRun, "complete")
                                /\ state_file' = NoStateFile

SetupCallback ==
    /\ \E url \in ParsedUrls : SetupCallbackBody(url)
    /\ UNCHANGED <<now, issued, loaded, expiry, client, call, laterVars>>

---------------------------------------------------------------------------------------------------------------------------------------------------------------------------------------------------
\* InoreaderClient: Python values, the API's responses, _request.

CACHE_TTL == 300

PyDict(d) == [py |-> "dict", d |-> d, text |-> <<>>]
PyStr(text) == [py |-> "str", d |-> EmptyDict, text |-> text]
PyList(tok) == [py |-> "list", d |-> EmptyDict, text |-> <<tok>>]
PyNone == [py |-> "none", d |-> EmptyDict, text |-> <<>>]

\* The Python value of a member of a decoded object.
PyOf(tok) == [py |-> tok.t, d |-> EmptyDict, text |-> <<tok>>]

\* The literal [] and the literal {"items": []}.
EmptyList == PyList(JList("", 0))
EmptyItems == PyDict(DictPut(EmptyDict, "items", JList("", 0)))

Space == Punct(" ")
Word(s) == [t |-> "word", s |-> s, n |-> 0]

RECURSIVE LStripText(_)
LStripText(text) ==
    IF text # <<>> /\ Head(text) = Space THEN LStripText(Tail(text)) ELSE text

RECURSIVE RStripText(_)
RStripText(text) ==
    IF text # <<>> /\ text[Len(text)] = Space
    THEN RStripText(SubSeq(text, 1, Len(text) - 1)) ELSE text

\* str.strip() of a body.
StripText(text) == RStripText(LStripText(text))

\* str.startswith("{")
StartsWithBrace(text) == text # <<>> /\ Head(text) = LBrace

\* json.loads(text), resp.json(): an object, a lone array, or JSONDecodeError.
\* White space around the document is skipped.
JsonLoads(text) ==
    LET doc == StripText(text)
    IN  IF Len(doc) = 1 /\ doc[1].t = "list" THEN [ok |-> TRUE, val |-> PyList(doc[1])]
        ELSE LET r == JsonLoad(doc)
             IN  IF r.ok THEN [ok |-> TRUE, val |-> PyDict(r.val)]
                 ELSE [ok |-> FALSE, val |-> PyNone]

Members(keys, val) ==
    <<LBrace>> \o DumpMembers([k \in {keys[i] : i \in 1 .. Len(keys)} |-> val], keys)
    \o <<RBrace>>

\* Bodies the API may send: objects with the members the calls look for, the
\* empty object, an object after white space, a cut-off object, a lone array,
\* the word OK, nothing.
ApiBodies ==
    {Members(<<"subscriptions", "items", "unreadcounts", "tags">>, JList("one", 1)),
     Members(<<"subscriptions">>, JList("two", 2)),
     <<LBrace, RBrace>>,
     <<Space>> \o Members(<<"items">>, JList("one", 1)),
     <<LBrace, JStr("items"), Colon>>,
     <<JList("one", 1)>>,
     <<Word("OK")>>,
     <<>>}

\* Content-Type headers, in pieces; the empty one is a response without the
\* header.
ContentTypes == {<<"application/json", "; charset=utf-8">>, <<"text/plain">>, <<>>}

\* "application/json" in content_type
IsJsonType(content_type) ==
    \E i \in 1 .. Len(content_type) : content_type[i] = "application/json"

NoResponse == [kind |-> "none", status |-> 0, ctype |-> <<>>, body |-> <<>>]

\* Bodies that come with an error status.
ErrorBodies == {<<LBrace, RBrace>>, <<Word("Unauthorized")>>}

ApiResponses ==
    {[NoResponse EXCEPT !.kind = k] : k \in {"network_error", "timeout"}}
    \cup [kind : {"response"}, status : {200}, ctype : ContentTypes, body : ApiBodies]
    \cup [kind : {"response"}, status : {401, 500},
          ctype : ContentTypes \ {<<>>}, body : ErrorBodies]

NoError == [type |-> "", status |-> 0, body |-> <<>>]
Return(val) == [kind |-> "return", val |-> val, err |-> NoError]
Raise(type, status, body) ==
    [kind |-> "raise", val |-> PyNone, err |-> [type |-> type, status |-> status, body |-> body]]
NoOutcome == [kind |-> "none", val |-> PyNone, err |-> NoError]

\* Exception(f"API request failed: {resp.status} - {text}")
ApiError(status, body) == Raise("API request failed", status, body)

\* _get_headers()
_get_headers(auth_token) ==
    [authorization |-> [scheme |-> "GoogleLogin", token |-> auth_token],
     app_id |-> TRUE, app_key |-> TRUE]

NoRequest ==
    [authorization |-> [scheme |-> "", token |-> ""], app_id |-> FALSE, app_key |-> FALSE]

\* await resp.json(): None for a body of white space, else json.loads of it.
RespJson(body) ==
    IF StripText(body) = <<>> THEN Return(PyNone)
    ELSE IF JsonLoads(body).ok THEN Return(JsonLoads(body).val)
    ELSE Raise("JSONDecodeError", 0, <<>>)

\* A request layer that looks at the content type before the status.
_request_type_first(resp) ==
    IF resp.kind = "network_error" THEN Raise("ClientError", 0, <<>>)
    ELSE IF resp.kind = "timeout" THEN Raise("TimeoutError", 0, <<>>)
    ELSE IF IsJsonType(resp.ctype) THEN RespJson(resp.body)
    ELSE IF resp.status # 200 THEN ApiError(resp.status, resp.body)
    ELSE Return(PyStr(resp.body))

\* _request(method, endpoint, ...), given what the server answers.
_request(resp) ==
    IF resp.kind = "network_error" THEN Raise("ClientError", 0, <<>>)
    ELSE IF resp.kind = "timeout" THEN Raise("TimeoutError", 0, <<>>)
    ELSE IF resp.status # 200 THEN ApiError(resp.status, resp.body)
    ELSE IF IsJsonType(resp.ctype) THEN RespJson(resp.body)
    ELSE Return(PyStr(resp.body))

\* A request layer that sends a failed request a second time.
RequestsSent_retrying(resp) ==
    IF resp.kind # "response" \/ resp.status # 200 THEN 2 ELSE 1

\* The HTTP requests one call of _request sends: session.request is entered
\* once, in no loop, and nothing in _request catches what it raises.
RequestsSent(resp) == 1

\* result.get(key, []) on what _request returned: only a dict has .get.
GetMember(result, key) ==
    IF result.py # "dict" THEN Raise("AttributeError", 0, <<>>)
    ELSE IF key \in DOMAIN result.d THEN Return(PyOf(result.d[key]))
    ELSE Return(EmptyList)

\* The tail of get_stream_contents and of search: a string that starts with a
\* brace and parses is returned parsed, any other string becomes {"items": []}.
NormaliseItems(result) ==
    IF result.py = "str"
    THEN IF StartsWithBrace(StripText(result.text)) /\ JsonLoads(result.text).ok
         THEN Return(JsonLoads(result.text).val)
         ELSE Return(EmptyItems)
    ELSE Return(result)

\* The response cache: the one key "subscription_list", its value and the tick
\* it was stored at.
EmptyCache == [has |-> FALSE, value |-> PyNone, at |-> 0]

\* A cache whose entries live one tick longer.
CacheHit_inclusive(cache, t) == cache.has /\ t <= cache.at + CACHE_TTL * TicksPerSecond

\* cache_key in self.cache: the entry is there and its time to live, counted
\* from the put, has not run out.
CacheHit(cache, t) == cache.has /\ t < cache.at + CACHE_TTL * TicksPerSecond

NoClient ==
    [stage |-> "none", session |-> "none", auth_token |-> "", cache |-> EmptyCache]

\* A constructor that takes the cache of the instance before it.
NewClient_keeping_cache == [NoClient EXCEPT !.stage = "constructed", !.cache = client.cache]

\* __init__, given the attributes it reads: no session, no token, empty cache.
NewClient == [NoClient EXCEPT !.stage = "constructed"]

\* What a client operation did: the request it sent (if any) and how many
\* times it was sent, the response, what _request gave back and what the
\* operation gave its caller; and whether the stored token record was expired
\* when the operation began.
NoCall ==
    [op |-> "none", sent |-> FALSE, requests |-> 0, request |-> NoRequest,
     resp |-> NoResponse, result |-> NoOutcome, ret |-> NoOutcome,
     token_expired |-> FALSE]

-----------------
\* The clock.

Tick ==
    /\ now < MaxNow
    /\ now' = now + 1
    /\ UNCHANGED <<setupVars, loaded, expiry, client, call, laterVars>>

NotLoaded == [kind |-> "not_called", val |-> EmptyDict]
NoExpiry == [called |-> FALSE, expires_at |-> 0, buffer |-> 0, at |-> 0, result |-> FALSE]

\* No save_tokens under way.
NoSave == [pc |-> "idle", tokens |-> EmptyDict, before |-> NoFile, k |-> 0]
\* No call of the token endpoint yet.
NoGrant ==
    [op |-> "none", sent |-> "", posts |-> 0, resp |-> [kind |-> "none"], at |-> 0,
     out |-> Raised("", 0, "")]
\* No tool called yet.  report is what the tool returns: its kind, and the
\* counts or the exception that its text carries; runs counts the calls of
\* list_feeds_tool.
NoReport == [kind |-> "none", count |-> 0, total |-> 0, error |-> ""]
NoTool ==
    [pc |-> "idle", runs |-> 0, config |-> {}, ids |-> <<>>, chunks |-> <<>>, i |-> 0,
     calls |-> <<>>, results |-> <<>>, success_count |-> 0, report |-> NoReport]
\* No authorization URL built yet.
NoUrl == [state |-> <<>>, redirect_uri |-> <<>>, url |-> [endpoint |-> "", query |-> <<>>]]
NoUrls == [n |-> 0, last |-> NoUrl, before |-> NoUrl]
\* The server before run(): nothing read, nothing written.
NoLine == [kind |-> "none", py |-> "none", method |-> "", has_id |-> FALSE, id |-> 0,
           params |-> "absent"]
\* events is the order of what the loop did for the lines it read: line n
\* read, a network call made for line n, the response to line n written.
NoServer ==
    [pc |-> "idle", env |-> {}, read |-> 0, dropped |-> 0, line |-> NoLine,
     responses |-> <<>>, caught |-> "", logged |-> "", events |-> <<>>,
     calls_left |-> 0]

Init ==
    /\ now = 0
    /\ token_file = NoFile
    /\ state_file = NoStateFile
    /\ issued = {}
    /\ consumed = {}
    /\ run = NoRun
    /\ written = NotWritten
    /\ loaded = NotLoaded
    /\ expiry = NoExpiry
    /\ client = NoClient
    /\ call = NoCall
    /\ save = NoSave
    /\ grant = NoGrant
    /\ tool = NoTool
    /\ server = NoServer
    /\ authz = NoUrls

Next ==
    \/ Tick
    \/ SetupConfigError
    \/ SetupGenerate
    \/ SetupCallback

\* The setup script, run any number of times.
Spec == Init /\ [][Next]_vars

---------------------------------------------------------------------------------------------------------------------------------------
\* The Token Store on its own: saves of token records, some of which fail
\* part-way through the write, and loads.

TokenRecords ==
    {TokenRecord(JStr(a), JStr("R1"), JInt(e), JStr("read")) :
        a \in {"A1", "A2"}, e \in {300, 3600}}

StoreSave ==
    /\ \E tokens \in TokenRecords :
         /\ token_file' = save_tokens(token_file, tokens)
         /\ written' = [called |-> TRUE, tokens |-> tokens, complete |-> TRUE,
                        over |-> token_file.exists]
    /\ loaded' = NotLoaded
    /\ UNCHANGED <<now, state_file, issued, consumed, run, expiry, client,
                   call, laterVars>>

\* A save whose write raises (or whose process dies) after k tokens.
StoreSaveFails ==
    /\ \E tokens \in TokenRecords :
         \E k \in 0 .. Len(JsonDump(tokens)) - 1 :
           /\ token_file' = WrittenPrefix(token_file, JsonDump(tokens), k)
           /\ written' = [called |-> TRUE, tokens |-> tokens, complete |-> FALSE,
                          over |-> token_file.exists]
    /\ loaded' = NotLoaded
    /\ UNCHANGED <<now, state_file, issued, consumed, run, expiry, client,
                   call, laterVars>>

\* load_tokens(); its result stands until the next write.
LoadTokens ==
    /\ loaded' = load_tokens(token_file)
    /\ UNCHANGED <<now, setupVars, expiry, client, call, laterVars>>

StoreNext ==
    \/ StoreSave
    \/ StoreSaveFails
    \/ LoadTokens

StoreSpec == Init /\ [][StoreNext]_vars

----------------------------------------------------------------------------
\* save_tokens statement by statement, with a reader beside it: the open at
\* line 162 truncates the file, json.dump's text reaches the file in one or
\* more flushes (the last when the with-block closes it), and the chmod of
\* line 166 comes after that.

SaveOpen ==
    /\ save.pc = "idle"
    /\ \E tokens \in TokenRecords :
         save' = [pc |-> "open", tokens |-> tokens, before |-> token_file, k |-> 0]
    /\ token_file' = OpenForWrite(token_file)
    /\ loaded' = NotLoaded
    /\ UNCHANGED <<now, state_file, issued, consumed, run, written, expiry, client, call,
                   grant, tool, server, authz>>

\* The buffer is flushed before the text is complete.
SaveFlush ==
    /\ save.pc = "open"
    /\ \E k \in save.k + 1 .. Len(JsonDump(save.tokens)) - 1 :
         /\ token_file' = [token_file EXCEPT !.text = SubSeq(JsonDump(save.tokens), 1, k)]
         /\ save' = [save EXCEPT !.k = k]
    /\ UNCHANGED <<now, state_file, issued, consumed, run, written, loaded, expiry, client,
                   call, grant, tool, server, authz>>

\* The end of the with-block: the rest of the text reaches the file.
SaveClose ==
    /\ save.pc = "open"
    /\ token_file' = [token_file EXCEPT !.text = JsonDump(save.tokens)]
    /\ save' = [save EXCEPT !.pc = "closed", !.k = Len(JsonDump(save.tokens))]
    /\ UNCHANGED <<now, state_file, issued, consumed, run, written, loaded, expiry, client,
                   call, grant, tool, server, authz>>

\* self.token_file.chmod(0o600); save_tokens returns.
SaveChmod ==
    /\ save.pc = "closed"
    /\ token_file' = [token_file EXCEPT !.mode = "0600"]
    /\ save' = [save EXCEPT !.pc = "idle"]
    /\ UNCHANGED <<now, state_file, issued, consumed, run, written, loaded, expiry, client,
                   call, grant, tool, server, authz>>

SaveNext ==
    \/ SaveOpen
    \/ SaveFlush
    \/ SaveClose
    \/ SaveChmod
    \/ LoadTokens

SaveSpec == Init /\ [][SaveNext]_vars

----------------------------------------------------------------------------
\* The two calls of the token endpoint on their own, at every reading of the
\* clock.  Each opens a session and POSTs once; sent is the credential that
\* goes in the form (the code, or the refresh token held so far).

Codes == {"c1"}
HeldRefreshTokens == {"R0", "R1"}

ExchangeCode ==
    /\ \E code \in Codes, resp \in TokenResponses :
         grant' = [op |-> "exchange", sent |-> code, posts |-> 1, resp |-> resp,
                   at |-> now, out |-> exchange_code_for_tokens(resp, now)]
    /\ UNCHANGED <<now, setupVars, loaded, expiry, client, call, save, tool, server, authz>>

RefreshToken ==
    /\ \E refresh_token \in HeldRefreshTokens, resp \in TokenResponses :
         grant' = [op |-> "refresh", sent |-> refresh_token, posts |-> 1, resp |-> resp,
                   at |-> now, out |-> refresh_access_token(resp, now)]
    /\ UNCHANGED <<now, setupVars, loaded, expiry, client, call, save, tool, server, authz>>

GrantNext ==
    \/ Tick
    \/ ExchangeCode
    \/ RefreshToken

GrantSpec == Init /\ [][GrantNext]_vars

----------------------------------------------------------------------------
\* is_token_expired on its own, at every reading of the clock.

Buffers == {0, DefaultBuffer}

ExpiresAtValues == {0, 1, DefaultBuffer - 1, DefaultBuffer, DefaultBuffer + 1,
                    DefaultBuffer + 2}

IsTokenExpired ==
    /\ \E e \in ExpiresAtValues, b \in Buffers :
         LET tokens == TokenRecord(JStr("A1"), JStr("R1"), JInt(e), JStr("read"))
         IN  expiry' = [called |-> TRUE, expires_at |-> e, buffer |-> b, at |-> now,
                        result |-> is_token_expired(tokens, b, now)]
    /\ UNCHANGED <<now, setupVars, loaded, client, call, laterVars>>

ExpiryNext ==
    \/ Tick
    \/ IsTokenExpired

ExpirySpec == Init /\ [][ExpiryNext]_vars

----------------------------------------------------------------------------
\* The methods of InoreaderClient, on an instance built with the attributes
\* __init__ reads supplied, beside a token file that an earlier setup left.

Line(prefix, rest) == [prefix |-> prefix, rest |-> rest]

AuthTexts ==
    {<<Line("SID=", "s"), Line("Auth=", "T1")>>, <<Line("Auth=", "T1")>>,
     <<Line("SID=", "s")>>, <<Line("Auth=", "")>>, <<>>}

AuthResponses ==
    {[NoResponse EXCEPT !.kind = "network_error"]}
    \cup [kind : {"response"}, status : {200, 401}, ctype : {<<"text/plain">>},
          body : AuthTexts]

\* The loop over text.split("\n"): the rest of the first line that starts
\* with "Auth=", or nothing.
RECURSIVE FirstAuth(_)
FirstAuth(lines) ==
    IF lines = <<>> THEN ""
    ELSE IF Head(lines).prefix = "Auth=" THEN Head(lines).rest
    ELSE FirstAuth(Tail(lines))

\* _authenticate(), given what ClientLogin answers: the token, or an exception.
_authenticate(resp) ==
    IF resp.kind # "response" THEN [token |-> "", out |-> Raise("ClientError", 0, <<>>)]
    ELSE IF resp.status # 200
    THEN [token |-> "", out |-> Raise("Authentication failed", resp.status, resp.body)]
    ELSE IF FirstAuth(resp.body) = ""
    THEN [token |-> "", out |-> Raise("No auth token received", 0, <<>>)]
    ELSE [token |-> FirstAuth(resp.body), out |-> Return(PyNone)]

\* Whether the record in the token file is expired by is_token_expired.
StoredTokenExpired ==
    /\ load_tokens(token_file).kind = "dict"
    /\ is_token_expired(load_tokens(token_file).val, DefaultBuffer, now)

ClientConstruct ==
    /\ client.stage \in {"none", "exited", "enter_failed"}
    /\ client' = NewClient
    /\ UNCHANGED <<now, setupVars, loaded, expiry, call, laterVars>>

\* __aenter__: open the session, authenticate.  When _authenticate raises, the
\* session stays open and the caller never holds the client.
ClientEnter ==
    /\ client.stage = "constructed"
    /\ \E resp \in AuthResponses :
         LET a == _authenticate(resp)
         IN  /\ client' = [client EXCEPT
                             !.session = "open",
                             !.auth_token = a.token,
                             !.stage = IF a.out.kind = "raise" THEN "enter_failed"
                                       ELSE "entered"]
             /\ call' = [NoCall EXCEPT
                           !.op = "authenticate", !.sent = TRUE, !.requests = 1,
                           !.request = [NoRequest EXCEPT !.app_id = TRUE, !.app_key = TRUE],
                           !.resp = resp, !.result = a.out, !.ret = a.out,
                           !.token_expired = StoredTokenExpired]
    /\ UNCHANGED <<now, setupVars, loaded, expiry, laterVars>>

\* __aexit__: close the session.
ClientExit ==
    /\ client.stage = "entered"
    /\ client' = [client EXCEPT !.stage = "exited", !.session = "closed"]
    /\ UNCHANGED <<now, setupVars, loaded, expiry, call, laterVars>>

\* The record of a call that sent one request, got resp, and gave ret to its
\* caller.  An exception of _request passes through the method unchanged.
Sent(op, resp, ret) ==
    [NoCall EXCEPT
       !.op = op, !.sent = TRUE, !.requests = RequestsSent(resp),
       !.request = _get_headers(client.auth_token),
       !.resp = resp, !.result = _request(resp),
       !.ret = IF _request(resp).kind = "raise" THEN _request(resp) ELSE ret,
       !.token_expired = StoredTokenExpired]

Quiet == UNCHANGED <<now, setupVars, loaded, expiry, laterVars>>

\* get_subscription_list(), the API answering with one of `responses`.
GetSubscriptionList(responses) ==
    /\ client.stage = "entered"
    /\ IF CacheHit(client.cache, now)
       THEN /\ call' = [NoCall EXCEPT !.op = "get_subscription_list",
                                      !.ret = Return(client.cache.value),
                                      !.token_expired = StoredTokenExpired]
            /\ UNCHANGED client
       ELSE \E resp \in responses :
              /\ call' = Sent("get_subscription_list", resp,
                              GetMember(_request(resp).val, "subscriptions"))
              /\ client' = IF call'.ret.kind = "return"
                           THEN [client EXCEPT !.cache = [has |-> TRUE,
                                                          value |-> call'.ret.val,
                                                          at |-> now]]
                           ELSE client
    /\ Quiet

get_subscription_list == GetSubscriptionList(ApiResponses)

get_unread_count ==
    /\ client.stage = "entered"
    /\ \E resp \in ApiResponses :
         call' = Sent("get_unread_count", resp,
                      GetMember(_request(resp).val, "unreadcounts"))
    /\ UNCHANGED client
    /\ Quiet

list_tags ==
    /\ client.stage = "entered"
    /\ \E resp \in ApiResponses :
         call' = Sent("list_tags", resp, GetMember(_request(resp).val, "tags"))
    /\ UNCHANGED client
    /\ Quiet

get_stream_contents ==
    /\ client.stage = "entered"
    /\ \E resp \in ApiResponses :
         call' = Sent("get_stream_contents", resp, NormaliseItems(_request(resp).val))
    /\ UNCHANGED client
    /\ Quiet

search ==
    /\ client.stage = "entered"
    /\ \E resp \in ApiResponses :
         call' = Sent("search", resp, NormaliseItems(_request(resp).val))
    /\ UNCHANGED client
    /\ Quiet

\* get_stream_item_contents(item_ids): no request for an empty list.
get_stream_item_contents ==
    /\ client.stage = "entered"
    /\ \/ call' = [NoCall EXCEPT !.op = "get_stream_item_contents",
                                 !.ret = Return(EmptyItems),
                                 !.token_expired = StoredTokenExpired]
       \/ \E resp \in ApiResponses :
            call' = Sent("get_stream_item_contents", resp, _request(resp))
    /\ UNCHANGED client
    /\ Quiet

ReadOps ==
    {"get_subscription_list", "get_unread_count", "list_tags", "get_stream_contents",
     "search", "get_stream_item_contents"}

\* The token files an earlier setup can have left: none, or a record whose
\* access token is within the refresh buffer of its expiry.
ClientTokenFiles ==
    {NoFile} \cup {save_tokens(NoFile, TokenRecord(JStr("A1"), JStr("R1"), JInt(e), JStr("read"))) :
                      e \in {DefaultBuffer}}

ClientInit ==
    /\ now = 0
    /\ token_file \in ClientTokenFiles
    /\ state_file = NoStateFile
    /\ issued = {}
    /\ consumed = {}
    /\ run = NoRun
    /\ written = NotWritten
    /\ loaded = NotLoaded
    /\ expiry = NoExpiry
    /\ client = NoClient
    /\ call = NoCall
    /\ save = NoSave
    /\ grant = NoGrant
    /\ tool = NoTool
    /\ server = NoServer
    /\ authz = NoUrls

ClientNext ==
    \/ ClientConstruct
    \/ ClientEnter
    \/ ClientExit
    \/ get_subscription_list
    \/ get_unread_count
    \/ list_tags
    \/ get_stream_contents
    \/ search
    \/ get_stream_item_contents

ClientSpec == ClientInit /\ [][ClientNext]_vars

----------------------------------------------------------------------------
\* The methods of InoreaderClient that change something at Inoreader.

PyBool(b) ==
    [py |-> "bool", d |-> EmptyDict, text |-> <<Word(IF b THEN "True" ELSE "False")>>]

\* What the API answers to an edit: OK as text, an object, a refusal, nothing
\* (the connection fails, or the answer does not come within the timeout).
MutationResponses ==
    {r \in ApiResponses :
        \/ r.kind \in {"network_error", "timeout"}
        \/ /\ r.kind = "response"
           /\ r.ctype # <<>>
           /\ \/ r.status = 200 /\ r.body \in {<<Word("OK")>>, <<LBrace, RBrace>>}
              \/ r.status = 401 /\ r.body = <<Word("Unauthorized")>>}

\* result == "OK"
IsOK(result) == PyBool(result = PyStr(<<Word("OK")>>))

\* mark_as_read(item_ids) and edit_tag(item_ids, ...): True at once for no
\* ids, else one POST to edit-tag and whether the answer was the text OK.
EditTagResult(item_ids, resp) ==
    IF item_ids = <<>> THEN Return(PyBool(TRUE))
    ELSE IF _request(resp).kind = "raise" THEN _request(resp)
    ELSE Return(IsOK(_request(resp).val))

ItemIdLists == {<<>>, <<"id1">>}

\* The record of a call of mark_as_read or edit_tag under the name `op`.
EditTagCall(op, item_ids, resp) ==
    IF item_ids = <<>>
    THEN [NoCall EXCEPT !.op = op, !.ret = EditTagResult(item_ids, resp),
                        !.token_expired = StoredTokenExpired]
    ELSE Sent(op, resp, EditTagResult(item_ids, resp))

\* A mark_as_read that drops the cached subscription list.
mark_as_read_invalidating ==
    /\ client.stage = "entered"
    /\ \E item_ids \in ItemIdLists, resp \in MutationResponses :
         call' = EditTagCall("mark_as_read", item_ids, resp)
    /\ client' = [client EXCEPT !.cache = EmptyCache]
    /\ Quiet

mark_as_read ==
    /\ client.stage = "entered"
    /\ \E item_ids \in ItemIdLists, resp \in MutationResponses :
         call' = EditTagCall("mark_as_read", item_ids, resp)
    /\ UNCHANGED client
    /\ Quiet

\* star_article and the like hand their ids and one tag to edit_tag.
EditTagWrappers ==
    {"edit_tag", "star_article", "unstar_article", "broadcast_article", "like_article",
     "tag_article", "untag_article"}

edit_tag ==
    /\ client.stage = "entered"
    /\ \E op \in EditTagWrappers, item_ids \in ItemIdLists, resp \in MutationResponses :
         call' = EditTagCall(op, item_ids, resp)
    /\ UNCHANGED client
    /\ Quiet

\* A method that POSTs once and returns what _request returned.
PostCall(op) ==
    /\ client.stage = "entered"
    /\ \E resp \in MutationResponses : call' = Sent(op, resp, _request(resp))
    /\ UNCHANGED client
    /\ Quiet

add_subscription == PostCall("add_subscription")
edit_subscription == PostCall("edit_subscription")
rename_tag == PostCall("rename_tag")
delete_tag == PostCall("delete_tag")
mark_all_as_read == PostCall("mark_all_as_read")

MutatingOps ==
    EditTagWrappers \cup {"mark_as_read", "add_subscription", "edit_subscription",
                          "rename_tag", "delete_tag", "mark_all_as_read"}

----------------------------------------------------------------------------
\* mark_as_read_tool (tools.py), statement by statement.  The tool builds its
\* own client from Config: from config.py as it is, where InoreaderClient()
\* raises, and from a Config that also has the two attributes __init__ reads,
\* where the loop over the chunks runs.

ChunkSize == 20

\* chunk_list(lst, size) of utils: consecutive slices of at most `size`.
RECURSIVE chunk_list(_, _)
chunk_list(lst, size) ==
    IF lst = <<>> THEN <<>>
    ELSE IF Len(lst) <= size THEN <<lst>>
    ELSE <<SubSeq(lst, 1, size)>> \o chunk_list(SubSeq(lst, size + 1, Len(lst)), size)

IdCounts == {0, 1, ChunkSize, ChunkSize + 1, 2 * ChunkSize, MaxIds}

Deployments == {ConfigAttributes, ConfigAttributes \cup InitAttributes}

\* An except branch whose text tells how many articles were marked.
ToolError_counting(error) ==
    [tool EXCEPT !.pc = "done", !.report = [NoReport EXCEPT !.kind = "error",
                                                         !.error = error,
                                                         !.count = tool.success_count,
                                                         !.total = Len(tool.ids)]]

\* The except branch: "Error marking articles as read: <exception>".
ToolError(error) ==
    [tool EXCEPT !.pc = "done", !.report = [NoReport EXCEPT !.kind = "error",
                                                         !.error = error]]

\* The call arrives; an empty list is answered at once.
ToolStart ==
    /\ tool.pc = "idle"
    /\ \E n \in IdCounts, config \in Deployments :
         tool' = IF n = 0
                 THEN [NoTool EXCEPT !.pc = "done", !.config = config,
                                     !.report = [NoReport EXCEPT !.kind = "no_ids"]]
                 ELSE [NoTool EXCEPT !.pc = "called", !.config = config,
                                     !.ids = [k \in 1 .. n |-> k]]
    /\ UNCHANGED <<now, setupVars, loaded, expiry, client, call, save, grant, server, authz>>

\* async with InoreaderClient() as client: __init__, then __aenter__ with
\* what ClientLogin answers; then chunk_list and success_count = 0.
ToolEnter ==
    /\ tool.pc = "called"
    /\ IF ~(InitAttributes \subseteq tool.config)
       THEN tool' = ToolError("AttributeError")
       ELSE \E resp \in AuthResponses :
              tool' = IF _authenticate(resp).out.kind = "raise"
                      THEN ToolError(_authenticate(resp).out.err.type)
                      ELSE [tool EXCEPT !.pc = "loop",
                                        !.chunks = chunk_list(tool.ids, ChunkSize),
                                        !.i = 1]
    /\ UNCHANGED <<now, setupVars, loaded, expiry, client, call, save, grant, server, authz>>

\* One turn of the loop: await client.mark_as_read(chunk).
ToolMarkChunk ==
    /\ tool.pc = "loop"
    /\ tool.i <= Len(tool.chunks)
    /\ \E resp \in MutationResponses :
         LET chunk == tool.chunks[tool.i]
             success == EditTagResult(chunk, resp)
             sent == [tool EXCEPT !.calls = Append(@, chunk),
                                  !.results = Append(@, success = Return(PyBool(TRUE)))]
         IN  tool' = IF success.kind = "raise"
                     THEN [ToolError(success.err.type) EXCEPT
                             !.calls = sent.calls, !.results = sent.results]
                     ELSE [sent EXCEPT
                             !.i = @ + 1,
                             !.success_count = IF success = Return(PyBool(TRUE))
                                               THEN @ + Len(chunk) ELSE @]
    /\ UNCHANGED <<now, setupVars, loaded, expiry, client, call, save, grant, server, authz>>

\* After the loop: the three messages.
ToolReport ==
    /\ tool.pc = "loop"
    /\ tool.i > Len(tool.chunks)
    /\ tool' = [tool EXCEPT
                  !.pc = "done",
                  !.report = [NoReport EXCEPT
                                !.kind = IF tool.success_count = Len(tool.ids) THEN "success"
                                         ELSE IF tool.success_count > 0 THEN "partial"
                                         ELSE "failed",
                                !.count = tool.success_count,
                                !.total = Len(tool.ids)]]
    /\ UNCHANGED <<now, setupVars, loaded, expiry, client, call, save, grant, server, authz>>

ToolNext ==
    \/ ToolStart
    \/ ToolEnter
    \/ ToolMarkChunk
    \/ ToolReport

ToolSpec == Init /\ [][ToolNext]_vars

----------------------------------------------------------------------------
\* MinimalMCPServer (main.py): the lines on stdin, handle_message, the loop.

\* The values json.loads may return for a line: objects with or without a
\* method, an id and params, and values that are not objects.  params is a
\* dict naming a tool of tools/list, a dict naming a tool tools/list leaves
\* out, a dict naming no tool, a dict whose arguments are a list, a list, or
\* absent.
Methods == {"initialize", "tools/list", "tools/call", "resources/list", ""}
ParamKinds == {"absent", "tool", "unlisted_tool", "unknown_tool", "list_arguments", "list"}

\* The names handle_list_tools advertises.
AdvertisedTools ==
    {"inoreader_list_feeds", "inoreader_list_articles", "inoreader_search",
     "inoreader_get_content", "inoreader_mark_as_read", "inoreader_stats",
     "inoreader_add_feed", "inoreader_edit_feed", "inoreader_unsubscribe_feed",
     "inoreader_list_tags", "inoreader_rename_tag", "inoreader_delete_tag",
     "inoreader_mark_all_as_read", "inoreader_star_article", "inoreader_unstar_article",
     "inoreader_broadcast_article", "inoreader_like_article", "inoreader_tag_article",
     "inoreader_untag_article"}

\* The names the if/elif chain of handle_call_tool has a branch for.
DispatchedTools ==
    {"inoreader_list_feeds", "inoreader_list_articles", "inoreader_search",
     "inoreader_get_content", "inoreader_mark_as_read", "inoreader_summarize",
     "inoreader_analyze", "inoreader_stats", "inoreader_add_feed", "inoreader_edit_feed",
     "inoreader_unsubscribe_feed", "inoreader_list_tags", "inoreader_rename_tag",
     "inoreader_delete_tag", "inoreader_mark_all_as_read", "inoreader_star_article",
     "inoreader_unstar_article", "inoreader_broadcast_article", "inoreader_like_article",
     "inoreader_tag_article", "inoreader_untag_article"}

\* params.get("name", "") for params that is a dict or absent.
ToolName(params) ==
    CASE params \in {"tool", "list_arguments"} -> "inoreader_mark_as_read"
      [] params = "unlisted_tool" -> "inoreader_summarize"
      [] params = "unknown_tool" -> "inoreader_export"
      [] OTHER -> ""

Messages ==
    [kind : {"json"}, py : {"dict"}, method : Methods, has_id : {TRUE}, id : {1, 7},
     params : ParamKinds]
    \cup [kind : {"json"}, py : {"dict"}, method : Methods, has_id : {FALSE}, id : {0},
          params : ParamKinds]
    \cup {[NoLine EXCEPT !.kind = "json", !.py = t] : t \in {"list", "int", "str"}}

\* What readline gives: a line of JSON, a blank line, a line that is not JSON,
\* a line longer than the reader's limit.
Lines ==
    Messages \cup {[NoLine EXCEPT !.kind = k] : k \in {"blank", "garbage", "oversized"}}

\* The texts a tool returns.
ToolTexts == {"No article IDs provided.", "Error marking articles as read"}

NoReply ==
    [id |-> 0, kind |-> "none", code |-> 0, message |-> <<>>, text |-> "",
     isError |-> FALSE]

\* send_error(msg_id, code, message)
send_error(msg_id, code, message) ==
    [NoReply EXCEPT !.id = msg_id, !.kind = "error", !.code = code, !.message = message]

\* handle_call_tool(msg_id, params) when params is a dict: one response, the
\* tool's text or the text of what was raised inside the try.  params absent
\* is {}, whose name "" is no tool; arguments that are a list have no .get.
handle_call_tool(msg_id, params, text) ==
    IF ToolName(params) \notin DispatchedTools
    THEN [NoReply EXCEPT !.id = msg_id, !.kind = "result", !.isError = TRUE,
                         !.text = "Error: Unknown tool: "]
    ELSE IF params = "list_arguments"
    THEN [NoReply EXCEPT !.id = msg_id, !.kind = "result", !.isError = TRUE,
                         !.text = "Error: no attribute 'get'"]
    ELSE [NoReply EXCEPT !.id = msg_id, !.kind = "result", !.text = text]

\* A handler that answers every error with id 0.
handle_message_noid(message, text) ==
    LET msg_id == IF message.has_id THEN message.id ELSE 0
        Result(t) == [NoReply EXCEPT !.id = msg_id, !.kind = "result", !.text = t]
    IN  IF message.py # "dict"
        THEN [out |-> <<>>, caught |-> "", raised |-> "no attribute 'get'"]
        ELSE IF message.method = "initialize"
        THEN [out |-> <<Result("serverInfo")>>, caught |-> "", raised |-> ""]
        ELSE IF message.method = "tools/list"
        THEN [out |-> <<Result("tools")>>, caught |-> "", raised |-> ""]
        ELSE IF message.method = "tools/call"
        THEN IF message.params = "list"
             THEN [out |-> <<send_error(0, -32603, <<"no attribute 'get'">>)>>,
                   caught |-> "no attribute 'get'", raised |-> ""]
             ELSE [out |-> <<handle_call_tool(msg_id, message.params, text)>>,
                   caught |-> "", raised |-> ""]
        ELSE [out |-> <<send_error(0, -32601, <<"Unknown method: ", message.method>>)>>,
              caught |-> "", raised |-> ""]

\* handle_message(message): the lines it writes to stdout, the exception its
\* own except caught, and the exception that leaves it.  message.get is
\* called before the try, so a value that is no dict raises past it; msg_id is
\* message.get("id", 0).  params that is a list has no .get, which raises in
\* handle_call_tool before its try and is caught here.
handle_message(message, text) ==
    LET msg_id == IF message.has_id THEN message.id ELSE 0
        Result(t) == [NoReply EXCEPT !.id = msg_id, !.kind = "result", !.text = t]
    IN  IF message.py # "dict"
        THEN [out |-> <<>>, caught |-> "", raised |-> "no attribute 'get'"]
        ELSE IF message.method = "initialize"
        THEN [out |-> <<Result("serverInfo")>>, caught |-> "", raised |-> ""]
        ELSE IF message.method = "tools/list"
        THEN [out |-> <<Result("tools")>>, caught |-> "", raised |-> ""]
        ELSE IF message.method = "tools/call"
        THEN IF message.params = "list"
             THEN [out |-> <<send_error(msg_id, -32603, <<"no attribute 'get'">>)>>,
                   caught |-> "no attribute 'get'", raised |-> ""]
             ELSE [out |-> <<handle_call_tool(msg_id, message.params, text)>>,
                   caught |-> "", raised |-> ""]
        ELSE [out |-> <<send_error(msg_id, -32601, <<"Unknown method: ", message.method>>)>>,
              caught |-> "", raised |-> ""]

\* asyncio.run(main()): the server is built and run() connects to stdin and
\* reads, whatever the environment; Config.validate is not called.
ServerStart ==
    /\ server.pc = "idle"
    /\ \E env \in Envs : server' = [server EXCEPT !.pc = "running", !.env = env]
    /\ UNCHANGED <<now, setupVars, loaded, expiry, client, call, save, grant, tool, authz>>

\* One turn of the loop on a line that is there: a blank line is skipped, a
\* line that is not JSON is logged, a line over the reader's limit makes
\* readline raise, and an exception that leaves handle_message is logged by
\* the loop's own except.
ServerLine ==
    /\ server.pc = "running"
    /\ server.read < MaxLines
    /\ \E line \in Lines, text \in ToolTexts :
         LET h == handle_message(line, text)
             responses == IF line.kind = "json" THEN h.out ELSE <<>>
             logged == CASE line.kind = "garbage" -> "Invalid JSON"
                         [] line.kind = "oversized" -> "Server loop error"
                         [] line.kind = "json" /\ h.raised # "" -> "Server loop error"
                         [] OTHER -> ""
         IN  server' = [server EXCEPT
                          !.read = @ + 1,
                          !.line = line,
                          !.responses = responses,
                          !.caught = IF line.kind = "json" THEN h.caught ELSE "",
                          !.logged = logged,
                          !.dropped = IF responses = <<>> THEN @ + 1 ELSE @]
    /\ UNCHANGED <<now, setupVars, loaded, expiry, client, call, save, grant, tool, authz>>

\* readline returns b"": the loop ends.
ServerEOF ==
    /\ server.pc = "running"
    /\ server' = [server EXCEPT !.pc = "stopped"]
    /\ UNCHANGED <<now, setupVars, loaded, expiry, client, call, save, grant, tool, authz>>

ServerNext ==
    \/ ServerStart
    \/ ServerLine
    \/ ServerEOF

ServerSpec == Init /\ [][ServerNext]_vars

----------------------------------------------------------------------------
\* The loop of run() with the handling of a request in steps: the line is
\* read, the tool it calls makes its network calls one after the other, the
\* response is written.

\* A loop that hands the message to a task and goes back to readline.
ReadlineReached_spawning(s) == s.pc \in {"running", "handling"}

\* run() awaits handle_message(message) inside the loop: readline is reached
\* again only when the handler has returned.
ReadlineReached(s) == s.pc = "running"

\* Requests: tools/list, which calls nothing, and tools/call.
Requests ==
    {m \in Messages : /\ m.py = "dict" /\ m.has_id /\ m.id = 1
                      /\ m.method \in {"tools/list", "tools/call"}
                      /\ m.params \in {"tool", "absent"}}

Event(e, n) == [e |-> e, n |-> n]

\* readline returns a request; handle_message begins.  A tool makes up to
\* MaxCalls network calls.
LoopRead ==
    /\ ReadlineReached(server)
    /\ server.pc # "idle"
    /\ server.read < MaxLines
    /\ \E line \in Requests, k \in 0 .. MaxCalls :
         server' = [server EXCEPT
                      !.pc = "handling",
                      !.read = @ + 1,
                      !.line = line,
                      !.responses = <<>>,
                      !.calls_left = IF line.method = "tools/call" /\ line.params = "tool"
                                     THEN k ELSE 0,
                      !.events = Append(@, Event("read", server.read + 1))]
    /\ UNCHANGED <<now, setupVars, loaded, expiry, client, call, save, grant, tool, authz>>

\* The tool awaits one network call.
LoopCall ==
    /\ server.pc = "handling"
    /\ server.calls_left > 0
    /\ server' = [server EXCEPT !.calls_left = @ - 1,
                                !.events = Append(@, Event("call", server.read))]
    /\ UNCHANGED <<now, setupVars, loaded, expiry, client, call, save, grant, tool, authz>>

\* send_response: the handler writes its line and returns to the loop.  A
\* tool whose call raised returns its error text without the calls it had
\* left.
LoopRespond ==
    /\ server.pc = "handling"
    /\ \E text \in ToolTexts :
         /\ (server.calls_left > 0) => text = "Error marking articles as read"
         /\ server' = [server EXCEPT
                         !.pc = "running",
                         !.calls_left = 0,
                         !.responses = handle_message(server.line, text).out,
                         !.events = Append(@, Event("write", server.read))]
    /\ UNCHANGED <<now, setupVars, loaded, expiry, client, call, save, grant, tool, authz>>

LoopNext ==
    \/ ServerStart
    \/ LoopRead
    \/ LoopCall
    \/ LoopRespond
    \/ ServerEOF

LoopSpec == Init /\ [][LoopNext]_vars

----------------------------------------------------------------------------
\* get_authorization_url called again and again, between runs of the setup
\* script that leave state files behind.

\* The states a caller may pass: what token_urlsafe gives, the empty string,
\* and strings with the characters a query gives a meaning to.
StateInputs ==
    States \cup {<<>>, <<"&", " ">>, <<"=", "+">>, <<"%", "2", "6">>, <<"x", "&", "state", "=", "y">>}
RedirectUris == {DefaultRedirectUri, <<"http", ":", "/", "/", "h", "/", "cb", "?", "a", "=", "b">>}

GetAuthorizationUrl ==
    /\ authz.n < MaxUrls
    /\ \E state \in StateInputs, redirect_uri \in RedirectUris :
         authz' = [n |-> authz.n + 1,
                   last |-> [state |-> state, redirect_uri |-> redirect_uri,
                             url |-> get_authorization_url(state, redirect_uri)],
                   before |-> authz.last]
    /\ UNCHANGED <<now, setupVars, loaded, expiry, client, call, save, grant, tool,
                   server>>

UrlNext ==
    \/ SetupGenerate
    \/ GetAuthorizationUrl

UrlSpec == Init /\ [][UrlNext]_vars

----------------------------------------------------------------------------
\* The response cache over its time to live: the subscription list asked for
\* again and again while the clock moves by ticks and by waits of just under
\* and exactly CACHE_TTL.

TTLTicks == CACHE_TTL * TicksPerSecond

Elapse ==
    /\ \E d \in {TTLTicks - 1, TTLTicks} :
         /\ now + d <= MaxNow + MaxTTLs * TTLTicks
         /\ now' = now + d
    /\ UNCHANGED <<setupVars, loaded, expiry, client, call, laterVars>>

\* Two lists of feeds, a refusal, a dead connection.
CacheResponses ==
    {r \in ApiResponses :
        \/ r.kind = "network_error"
        \/ /\ r.kind = "response"
           /\ IsJsonType(r.ctype)
           /\ \/ r.status = 200 /\ JsonLoads(r.body).ok /\ JsonLoads(r.body).val.py = "dict"
                 /\ "subscriptions" \in DOMAIN JsonLoads(r.body).val.d
              \/ r.status = 401 /\ r.body = <<Word("Unauthorized")>>}

CacheGet == GetSubscriptionList(CacheResponses)

CacheNext ==
    \/ Tick
    \/ Elapse
    \/ ClientConstruct
    \/ ClientEnter
    \/ CacheGet

CacheSpec == Init /\ [][CacheNext]_vars

----------------------------------------------------------------------------
\* list_feeds_tool (tools.py) called again and again while the clock moves.
\* Each call builds its own client, enters it, asks for the subscription list
\* and leaves it.

\* The tool's text: the number of feeds found, or "Error listing feeds: ...".
FeedsReport(config, kind, count, error) ==
    [NoTool EXCEPT !.pc = "done", !.runs = tool.runs + 1, !.config = config,
                   !.report = [NoReport EXCEPT !.kind = kind, !.count = count,
                                               !.error = error]]

list_feeds_tool ==
    /\ tool.runs < MaxRuns
    /\ \E config \in Deployments :
         IF ~(InitAttributes \subseteq config)
         THEN /\ tool' = FeedsReport(config, "error", 0, "AttributeError")
              /\ UNCHANGED <<client, call>>
         ELSE \E auth \in AuthResponses :
                LET a == _authenticate(auth)
                    entered == [NewClient EXCEPT !.session = "open", !.auth_token = a.token,
                                                 !.stage = "entered"]
                    left == [entered EXCEPT !.session = "closed", !.stage = "exited"]
                IN  IF a.out.kind = "raise"
                    THEN /\ client' = [entered EXCEPT !.stage = "enter_failed"]
                         /\ call' = [NoCall EXCEPT
                                       !.op = "authenticate", !.sent = TRUE, !.requests = 1,
                                       !.request = [NoRequest EXCEPT !.app_id = TRUE,
                                                                     !.app_key = TRUE],
                                       !.resp = auth, !.result = a.out, !.ret = a.out,
                                       !.token_expired = StoredTokenExpired]
                         /\ tool' = FeedsReport(config, "error", 0, a.out.err.type)
                    ELSE IF CacheHit(entered.cache, now)
                    THEN /\ client' = left
                         /\ call' = [NoCall EXCEPT !.op = "get_subscription_list",
                                                   !.ret = Return(entered.cache.value),
                                                   !.token_expired = StoredTokenExpired]
                         /\ tool' = FeedsReport(config, "feeds",
                                                entered.cache.value.text[1].n, "")
                    ELSE \E resp \in CacheResponses :
                           LET sent == [Sent("get_subscription_list", resp,
                                             GetMember(_request(resp).val, "subscriptions"))
                                          EXCEPT !.request = _get_headers(a.token)]
                           IN  /\ call' = sent
                               /\ client' = IF sent.ret.kind = "return"
                                            THEN [left EXCEPT !.cache = [has |-> TRUE,
                                                                         value |-> sent.ret.val,
                                                                         at |-> now]]
                                            ELSE left
                               /\ tool' = IF sent.ret.kind = "return"
                                          THEN FeedsReport(config, "feeds",
                                                           sent.ret.val.text[1].n, "")
                                          ELSE FeedsReport(config, "error", 0,
                                                           sent.ret.err.type)
    /\ UNCHANGED <<now, setupVars, loaded, expiry, save, grant, server, authz>>

FeedsNext ==
    \/ Tick
    \/ list_feeds_tool

FeedsSpec == Init /\ [][FeedsNext]_vars

----------------------------------------------------------------------------
\* The subscription list asked for between edits.

MutationNext ==
    \/ ClientConstruct
    \/ ClientEnter
    \/ CacheGet
    \/ mark_as_read
    \/ edit_tag
    \/ add_subscription
    \/ edit_subscription
    \/ rename_tag
    \/ delete_tag
    \/ mark_all_as_read

MutationSpec == Init /\ [][MutationNext]_vars

-----------------
\* C1.  Every request a read operation sends while the stored token record is
\* expired goes out with the access token of a stored record that is no longer
\* expired: the refresh and the save came before the request.
C1_ExpiredTokenRefreshedBeforeRequest ==
    (call.op \in ReadOps /\ call.sent /\ call.token_expired) =>
        LET l == load_tokens(token_file)
        IN  /\ l.kind = "dict"
            /\ ~is_token_expired(l.val, DefaultBuffer, now)
            /\ JStr(call.request.authorization.token) = Get(l.val, "access_token", JStr(""))

\* C2 (as stated).  In a run of main() with a redirect URL and a saved state:
\* whenever the state of the URL is not exactly the saved state, the run ends
\* with the CSRF-mismatch error, the token endpoint is not called and the token
\* file is not written.
C2_MismatchIsCsrfError ==
    [][(/\ run'.kind = "callback"
        /\ run'.has_url
        /\ state_file.exists
        /\ ~run'.state_equal)
       => (/\ run'.exit = "state_mismatch"
           /\ ~run'.exchange_called
           /\ token_file' = token_file)]_vars

\* C2 (amended).  As above, but the missing-code check comes first: the run ends
\* with the CSRF-mismatch error when the URL carries a code and with the
\* missing-code error when it carries none; in both cases the token endpoint is
\* not called and the token file is not written.
C2_MismatchNeverExchanges ==
    [][(/\ run'.kind = "callback"
        /\ run'.has_url
        /\ state_file.exists
        /\ ~run'.state_equal)
       => (/\ run'.exit = (IF run'.has_code THEN "state_mismatch" ELSE "no_code")
           /\ ~run'.exchange_called
           /\ token_file' = token_file)]_vars

\* A run that was refused for its state although it carried a code, with
\* tokens of an earlier run on disk.
C2_Witness ==
    /\ run.kind = "callback"
    /\ run.exit = "state_mismatch"
    /\ run.has_code
    /\ ~run.state_equal
    /\ token_file.exists

\* C3.  The saved state is single-use: no run of the callback step gets past
\* the state check (and to the token endpoint) with a state for which a code
\* exchange has already succeeded.
C3_StateIsSingleUse ==
    ~(run.kind = "callback" /\ run.exchange_called /\ run.replay)

\* C4.  The token file changes only in a run whose state check passed and whose
\* exchange was answered with tokens; a run whose exchange call fails ends
\* there, with the token file and the saved state as they were.
C4_FailedExchangeWritesNothing ==
    [][/\ (token_file' # token_file)
          => (run'.kind = "callback" /\ run'.state_equal /\ run'.answer_ok)
       /\ (run'.kind = "callback" /\ run'.exchange_called /\ ~run'.answer_ok)
          => (/\ run'.exit = "exchange_failed"
              /\ token_file' = token_file
              /\ state_file' = state_file
              /\ state_file'.exists)]_vars

\* A failed exchange with tokens of an earlier run on disk.
C4_Witness ==
    /\ run.kind = "callback"
    /\ run.exit = "exchange_failed"
    /\ token_file.exists
    /\ state_file.exists

\* C5.  A read operation answered with status 200 never hands its caller a
\* bare string and never fails by using a string as a structured value.
C5_ReadsNeverYieldBareString ==
    (call.op \in ReadOps /\ call.sent /\ call.resp.kind = "response"
     /\ call.resp.status = 200) =>
        /\ ~(call.ret.kind = "return" /\ call.ret.val.py = "str")
        /\ ~(call.ret.kind = "raise" /\ call.ret.err.type = "AttributeError")

\* C6.  On status 200 with a content type that is not JSON, a body that is a
\* well-formed JSON object comes back from the request layer parsed, and a body
\* that does not parse comes back to the caller as a sentinel, never as text.
C6_NonJsonTypeIsParsedOrSentinel ==
    (call.op \in ReadOps /\ call.sent /\ call.resp.kind = "response"
     /\ call.resp.status = 200 /\ ~IsJsonType(call.resp.ctype)) =>
        LET parsed == JsonLoads(call.resp.body)
        IN  IF parsed.ok
            THEN parsed.val.py = "dict" => call.result = Return(parsed.val)
            ELSE call.ret.kind = "return" /\ call.ret.val.py # "str"

\* C7.  A read operation answered with a status other than 200 fails with the
\* error that carries the status and the body, whatever the content type, and
\* leaves the response cache as it was.
C7_NonOkStatusIsApiError ==
    [][(/\ call' # call
        /\ call'.op \in ReadOps
        /\ call'.sent
        /\ call'.resp.kind = "response"
        /\ call'.resp.status # 200) =>
            /\ call'.ret = ApiError(call'.resp.status, call'.resp.body)
            /\ client'.cache = client.cache]_vars

C7_Witness ==
    /\ call.op = "get_subscription_list"
    /\ call.sent
    /\ call.resp.kind = "response"
    /\ call.resp.status = 500
    /\ IsJsonType(call.resp.ctype)
    /\ call.ret.kind = "raise"
    /\ ~client.cache.has

\* C8.  is_token_expired(record, buffer) is true exactly when the time is at or
\* past expires_at - buffer; with the default buffer and expires_at = now + N
\* (now the clock in whole seconds) it is true exactly when N <= 300.
C8_ExpiredIffWithinBuffer ==
    expiry.called =>
      /\ expiry.result <=>
           (expiry.at >= (expiry.expires_at - expiry.buffer) * TicksPerSecond)
      /\ expiry.buffer = DefaultBuffer =>
           \A N \in (0 - 5) .. 305 :
             (expiry.expires_at = Seconds(expiry.at) + N) => (expiry.result <=> N <= 300)

\* The boundary: a record that expires in exactly 300 seconds is expired.
C8_Witness ==
    /\ expiry.called
    /\ expiry.buffer = DefaultBuffer
    /\ expiry.expires_at = Seconds(expiry.at) + 300
    /\ expiry.at > 0
    /\ expiry.result

\* C9.  A load that follows a completed save(r), with no write in between,
\* returns a dict equal to r; after several saves that is the last one.
C9_RoundTrip ==
    (loaded.kind # "not_called" /\ written.complete)
      => (loaded.kind = "dict" /\ loaded.val = written.tokens)

\* A load after a save that replaced an earlier file.
C9_Witness ==
    /\ loaded.kind = "dict"
    /\ written.complete
    /\ written.over
    /\ loaded.val = written.tokens

\* C10.  load returns none exactly when there is no file, the record when the
\* last write of the file ran to its end, and raises when the file is there
\* but was left part-written.
C10_LoadOutcomes ==
    loaded.kind # "not_called" =>
      /\ loaded.kind = "none" <=> ~token_file.exists
      /\ (token_file.exists /\ written.complete)
           => (loaded.kind = "dict" /\ loaded.val = written.tokens)
      /\ (token_file.exists /\ ~written.complete) => loaded.kind = "raise"

\* A load of a file that holds the first members of a record and no more.
C10_Witness ==
    /\ loaded.kind = "raise"
    /\ token_file.exists
    /\ Len(token_file.text) > 4
    /\ ~written.complete


\* C11.  What a load returns while a save is under way, or after it, is what a
\* load before the save would have returned or the record being saved.
C11_ReaderSeesOldOrNew ==
    loaded.kind # "not_called" =>
        \/ loaded = load_tokens(save.before)
        \/ loaded = [kind |-> "dict", val |-> save.tokens]

\* C12.  A token file that holds a token record has mode 0600, at every point
\* of a save.
C12_TokenDataIsOwnerOnly ==
    load_tokens(token_file).kind = "dict" => token_file.mode = "0600"


\* C13.  A refresh that the endpoint answers with status 200 and a new access
\* token returns a record with a refresh token, whether or not the answer
\* brings one: the one in the answer when it does.
C13_RefreshCarriesRefreshToken ==
    (/\ grant.op = "refresh"
     /\ grant.resp.kind = "response"
     /\ grant.resp.status = 200
     /\ "access_token" \in DOMAIN grant.resp.result) =>
        /\ grant.out.ok
        /\ "refresh_token" \in DOMAIN grant.out.tokens
        /\ "refresh_token" \in DOMAIN grant.resp.result =>
              grant.out.tokens["refresh_token"] = grant.resp.result["refresh_token"]

\* C14.  The exchange and the refresh POST once; on a status other than 200
\* they raise with the status and the body as received, and return no record.
C14_RefusedGrantRaises ==
    grant.op # "none" =>
        /\ grant.posts = 1
        /\ (grant.resp.kind = "response" /\ grant.resp.status # 200) =>
              /\ ~grant.out.ok
              /\ grant.out.what \in {"Token exchange failed", "Token refresh failed"}
              /\ grant.out.status = grant.resp.status
              /\ grant.out.text = grant.resp.text
              /\ grant.out.tokens = EmptyDict

\* A refresh refused with 400 invalid_grant.
C14_Witness ==
    /\ grant.op = "refresh"
    /\ grant.resp.kind = "response"
    /\ grant.resp.status = 400
    /\ grant.resp.text = "invalid_grant"
    /\ ~grant.out.ok

\* C15.  A record that the exchange or the refresh returns expires at the
\* second of issue plus the answer's expires_in, plus 3600 when the answer has
\* none.
C15_ExpiresAtIsIssuePlusLifetime ==
    (grant.op # "none" /\ grant.out.ok) =>
        grant.out.tokens["expires_at"] =
            JInt(Seconds(grant.at)
                 + (IF "expires_in" \in DOMAIN grant.resp.result
                    THEN grant.resp.result["expires_in"].n
                    ELSE 3600))

\* A refresh, after the first second, whose answer declares no lifetime.
C15_Witness ==
    /\ grant.op = "refresh"
    /\ grant.out.ok
    /\ Seconds(grant.at) > 0
    /\ "expires_in" \notin DOMAIN grant.resp.result
    /\ grant.out.tokens["expires_at"].n = Seconds(grant.at) + 3600


C17_MutationsBypassCache ==
    [][(/\ client.stage = "entered"
        /\ client'.stage = "entered"
        /\ call' # call
        /\ call'.op \in MutatingOps) =>
            /\ client'.cache = client.cache
            /\ call'.sent \/ call'.ret = Return(PyBool(TRUE))]_vars

\* A successful mark_as_read with a subscription list in the cache.
C17_Witness ==
    /\ call.op = "mark_as_read"
    /\ call.sent
    /\ call.ret = Return(PyBool(TRUE))
    /\ client.cache.has


\* C18.  mark_as_read_tool on n > 0 ids has, when it returns, issued
\* ceil(n/20) mark-read calls over consecutive chunks of at most 20 ids that
\* cover the ids in order; it reports success exactly when every call
\* succeeded, and otherwise the count of the chunks that did, or failure.
C18_ChunkedMarkAsRead ==
    (tool.pc = "done" /\ tool.ids # <<>>) =>
        LET n == Len(tool.ids)
            m == Len(tool.calls)
            Start(k) == (k - 1) * 20
        IN  /\ m = (n + 19) \div 20
            /\ \A k \in 1 .. m :
                  /\ Len(tool.calls[k]) = IF k < m THEN 20 ELSE n - Start(m)
                  /\ \A j \in 1 .. Len(tool.calls[k]) :
                        tool.calls[k][j] = tool.ids[Start(k) + j]
            /\ tool.report.kind = "success" <=> \A k \in 1 .. m : tool.results[k]
            /\ tool.report.kind \in {"success", "partial", "failed", "error"}
            /\ tool.report.kind = "partial" =>
                  tool.report.count
                    = Cardinality({i \in 1 .. n : \E k \in 1 .. m :
                                      tool.results[k] /\ Start(k) < i /\ i <= Start(k) + 20})


\* C19.  For a request object with an id: a method that is none of the three
\* is answered with error -32601, an exception caught from the handler of a
\* supported method with error -32603 and the exception's message, and either
\* answer carries the request's id.
C19_ErrorCodes ==
    (server.line.kind = "json" /\ server.line.py = "dict" /\ server.line.has_id) =>
        /\ server.line.method \notin {"initialize", "tools/list", "tools/call"} =>
              /\ Len(server.responses) = 1
              /\ server.responses[1].kind = "error"
              /\ server.responses[1].code = -32601
              /\ server.responses[1].id = server.line.id
        /\ server.caught # "" =>
              /\ Len(server.responses) = 1
              /\ server.responses[1].kind = "error"
              /\ server.responses[1].code = -32603
              /\ server.responses[1].message = <<server.caught>>
              /\ server.responses[1].id = server.line.id

\* tools/call with params that is a list, from a request with id 7.
C19_Witness ==
    /\ server.line.kind = "json"
    /\ server.line.method = "tools/call"
    /\ server.line.id = 7
    /\ server.caught # ""
    /\ server.responses[1].code = -32603

\* C20.  A line that parses as a request object gets exactly one response
\* line; a line dropped with a log entry is a line that is not parseable JSON
\* (or one the reader could not take whole).
C20_OneResponsePerParsedLine ==
    /\ (server.line.kind = "json" /\ server.line.py = "dict") => Len(server.responses) = 1
    /\ (server.responses = <<>> /\ server.logged # "") =>
          server.line.kind \in {"garbage", "oversized"}

\* C21.  Every tools/call request is answered with one JSON-RPC result, whose
\* content is the tool's text or the text of an error; none is answered with
\* a JSON-RPC error response.
C21_ToolCallAnsweredWithResult ==
    (server.line.kind = "json" /\ server.line.py = "dict"
     /\ server.line.method = "tools/call") =>
        /\ Len(server.responses) = 1
        /\ server.responses[1].kind = "result"

\* C28.  A tools/call that names a tool is answered with "Unknown tool"
\* exactly when tools/list does not advertise the name.
C28_AdvertisedIffDispatched ==
    (server.line.kind = "json" /\ server.line.py = "dict"
     /\ server.line.method = "tools/call" /\ server.line.params # "list") =>
        /\ Len(server.responses) = 1
        /\ (ToolName(server.line.params) \in AdvertisedTools)
             <=> (server.responses[1].text # "Error: Unknown tool: ")

\* C22.  No operation sends its HTTP request more than once, and an operation
\* whose request failed (a status other than 200, a network error, a timeout)
\* raises to its caller what the request layer raised, after that one request.
C22_NoRetry ==
    /\ call.requests <= 1
    /\ (call.sent /\ call.op \in ReadOps
         /\ (call.resp.kind # "response" \/ call.resp.status # 200)) =>
           /\ call.requests = 1
           /\ call.ret.kind = "raise"
           /\ call.ret = call.result

\* A read whose one request timed out, and a read whose one request was
\* refused, have raised.
C22_Witness ==
    /\ call.op = "get_unread_count"
    /\ call.resp.kind = "timeout"
    /\ call.requests = 1
    /\ call.ret.err.type = "TimeoutError"

\* C23.  Every request an operation sends to the API carries a bearer
\* credential with a token in its Authorization header, and the AppId and
\* AppKey headers.
C23_RequestsCarryBearerToken ==
    (call.sent /\ call.op \in ReadOps) =>
        /\ call.request.authorization.scheme = "Bearer"
        /\ call.request.authorization.token # ""
        /\ call.request.app_id
        /\ call.request.app_key

\* C26.  Once the operation a client was entered for is over, by __aexit__ or
\* by __aenter__ raising, the client's session is closed.
C26_SessionClosedAfterOperation ==
    client.stage \in {"exited", "enter_failed"} => client.session = "closed"

\* C24.  A server started without INOREADER_APP_ID or INOREADER_APP_KEY reads
\* no line and writes no response.
C24_MissingCredentialsStopServer ==
    (server.pc # "idle" /\ validate(server.env) = "ValueError") =>
        /\ server.read = 0
        /\ server.responses = <<>>

\* C25.  A line is read only after the response to the line before it has
\* been written, and every network call and every response belongs to the
\* line read last: responses come in the order of their requests and the
\* calls of two requests never interleave.
C25_OneRequestAtATime ==
    \A i \in 2 .. Len(server.events) :
        LET ev == server.events[i]
            before == server.events[i - 1]
        IN  IF ev.e = "read"
            THEN before.e = "write" /\ before.n = ev.n - 1
            ELSE before.e # "write" /\ before.n = ev.n

\* Two tool calls with network calls each, both answered.
C25_Witness ==
    /\ Len(server.events) >= 6
    /\ server.events[Len(server.events)] = Event("write", 2)
    /\ \E i, j \in 1 .. Len(server.events) :
         server.events[i] = Event("call", 1) /\ server.events[j] = Event("call", 2)

\* C27.  A call of get_authorization_url changes neither the token file nor
\* the state file nor any other state; its URL is the authorization endpoint
\* with a query that carries exactly client_id, redirect_uri as given,
\* response_type=code, scope "read write" and state as given; and two calls
\* with the same arguments give the same URL.
C27_AuthorizationUrlIsPure ==
    [][authz'.n > authz.n =>
         /\ UNCHANGED <<now, setupVars, loaded, expiry, client, call, save, grant,
                        tool, server>>
         /\ authz'.last.url.endpoint = AuthUrl
         /\ parse_qsl(authz'.last.url.query) =
               <<Param(<<"client_id">>, AppId),
                 Param(<<"redirect_uri">>, authz'.last.redirect_uri),
                 Param(<<"response_type">>, <<"code">>),
                 Param(<<"scope">>, <<"read", " ", "write">>),
                 Param(<<"state">>, authz'.last.state)>>
         /\ (authz.n > 0 /\ authz'.last.state = authz.last.state
              /\ authz'.last.redirect_uri = authz.last.redirect_uri) =>
                authz'.last.url = authz.last.url]_vars

\* The URL was built twice for a state with an ampersand and a space in it
\* and a redirect URI with a query of its own, beside a saved state file.
C27_Witness ==
    /\ authz.n = 2
    /\ authz.last.state = <<"&", " ">>
    /\ authz.before.state = authz.last.state
    /\ authz.last.redirect_uri # DefaultRedirectUri
    /\ authz.before.redirect_uri = authz.last.redirect_uri
    /\ state_file.exists

\* C29.  Every call of list_feeds_tool that got its client entered has sent
\* its own subscription-list request, once, and what it reports is what that
\* request was answered: the list an earlier call cached is never used, even
\* within the cache's time to live.
C29_FreshCachePerToolCall ==
    client.stage = "exited" =>
        /\ call.op = "get_subscription_list"
        /\ call.sent
        /\ call.requests = 1
        /\ call.ret = (IF call.result.kind = "raise" THEN call.result
                       ELSE GetMember(call.result.val, "subscriptions"))
        /\ tool.report.kind = "feeds" => tool.report.count = call.ret.val.text[1].n

\* A second call of the tool, within the time to live of the list the first
\* one cached, that was answered another list and reports it.
C29_Witness ==
    /\ tool.runs = 2
    /\ tool.report.kind = "feeds"
    /\ tool.report.count = 2
    /\ client.cache.has
    /\ client.cache.at > 0
    /\ call.sent
    /\ call.resp.body = Members(<<"subscriptions">>, JList("two", 2))

\* C30.  When the call for a chunk raises, mark_as_read_tool ends there: the
\* chunks up to that one have been sent, in order, and the answers to the
\* earlier ones stand; no later chunk is sent, then or afterwards; and the
\* text it returns is the error text, which carries no count of articles.
C30_RaisingChunkEndsTheTool ==
    [][((tool.pc = "loop" /\ tool'.pc = "done" /\ Len(tool'.calls) > Len(tool.calls)) =>
           /\ tool'.report.kind = "error"
           /\ tool'.report.count = 0
           /\ tool'.report.total = 0
           /\ tool'.calls = SubSeq(tool.chunks, 1, tool.i)
           /\ SubSeq(tool'.results, 1, tool.i - 1) = tool.results
           /\ tool'.success_count = tool.success_count)
       /\ (tool.pc = "done" => tool' = tool)]_vars

\* The second of three chunks raised after the first had been marked.
C30_Witness ==
    /\ tool.pc = "done"
    /\ tool.report.kind = "error"
    /\ Len(tool.chunks) = 3
    /\ Len(tool.calls) = 2
    /\ tool.results = <<TRUE, FALSE>>
    /\ tool.success_count = ChunkSize

====
